---- MODULE Spec2Model ----
(***************************************************************************)
(* Model of kinto/core/resource/schema.py: the request, record, query and  *)
(* permission schemas built on colander.                                   *)
(*                                                                         *)
(* The strings the code computes on (names, route templates, querystring   *)
(* keys and values) are sequences of one-character strings, so that        *)
(* str.replace, re.findall, str.startswith, str.split and str.format are   *)
(* computed character by character; strings it only passes on are TLA+     *)
(* strings.  Python's None is the record None.                             *)
(***************************************************************************)
EXTENDS Integers, Sequences, FiniteSets, TLC

VARIABLES pc, arg, ret, schema, last, binds

vars == <<pc, arg, ret, schema, last, binds>>

(***************************************************************************)
(* Strings                                                                 *)
(***************************************************************************)
N_id == <<"i", "d">>
N__id == <<"_", "i", "d">>
N__generator == <<"_", "g", "e", "n", "e", "r", "a", "t", "o", "r">>
N_id_generator == N_id \o N__generator
N_body == <<"b", "o", "d", "y">>
N_data == <<"d", "a", "t", "a">>
N_header == <<"h", "e", "a", "d", "e", "r">>
N_path == <<"p", "a", "t", "h">>
N_permissions == <<"p", "e", "r", "m", "i", "s", "s", "i", "o", "n", "s">>
N_querystring == <<"q", "u", "e", "r", "y", "s", "t", "r", "i", "n", "g">>
N_b == <<"b">>
N_c == <<"c">>

\* F(v), with v evaluated once (a LET definition is evaluated at each use).
Once(v, F(_)) == CHOOSE r \in {F(x) : x \in {v}} : TRUE

\* Python's None, and an optional value holding v.
None == [some |-> FALSE]
Some(v) == [some |-> TRUE, v |-> v]

\* Python truthiness of an optional string: None and '' are falsy.
Truthy(o) == o.some /\ o.v # <<>>

\* s[i:].startswith(p), 1-based.
StartsWithAt(s, p, i) ==
    /\ i + Len(p) - 1 <= Len(s)
    /\ SubSeq(s, i, i + Len(p) - 1) = p

startswith(s, p) == StartsWithAt(s, p, 1)

\* str.replace(old, new): left to right, non-overlapping occurrences.
RECURSIVE ReplaceFrom(_, _, _, _)
ReplaceFrom(s, old, new, i) ==
    IF i > Len(s) THEN <<>>
    ELSE IF StartsWithAt(s, old, i)
         THEN new \o ReplaceFrom(s, old, new, i + Len(old))
         ELSE <<s[i]>> \o ReplaceFrom(s, old, new, i + 1)

replace(s, old, new) == ReplaceFrom(s, old, new, 1)

\* The first index j >= i with s[j] = ch, or 0.
RECURSIVE IndexFrom(_, _, _)
IndexFrom(s, ch, i) ==
    IF i > Len(s) THEN 0
    ELSE IF s[i] = ch THEN i ELSE IndexFrom(s, ch, i + 1)

\* re.findall('\{.*?\}', s): from each leftmost "{" to the nearest "}" after it.
RECURSIVE FindAllFrom(_, _)
FindAllFrom(s, i) ==
    LET o == IndexFrom(s, "{", i) IN
    IF o = 0 THEN <<>>
    ELSE LET c == IndexFrom(s, "}", o + 1) IN
         IF c = 0 THEN <<>>
         ELSE <<SubSeq(s, o, c)>> \o FindAllFrom(s, c + 1)

findall_braces(s) == FindAllFrom(s, 1)

\* '{{{}_id}}'.format(r)
FormatIdPlaceholder(r) == <<"{">> \o r \o N__id \o <<"}">>

\* '{}_generator'.format(rid)
FormatGeneratorKey(rid) == rid \o N__generator

(***************************************************************************)
(* Schema nodes (colander.SchemaNode)                                      *)
(***************************************************************************)
\* dir(self), restricted to the attributes that can hold a deferred; sorted.
DirOrder == <<N_body, N_data, N_header, N_path, N_permissions, N_querystring>>

AttrNames == {DirOrder[i] : i \in 1..Len(DirOrder)}

NoAttrs == [k \in AttrNames |-> "unset"]

\* A node: its name, its class, its children in order, the attributes set on the
\* instance ("unset": the class attribute shows through), its validator's
\* regular expression (or ""), its missing policy ("required" or "drop") and
\* its default ("null" or "{}").
MkNode(name, cls, children, validator, missing) ==
    [name |-> name, cls |-> cls, children |-> children, attrs |-> NoAttrs,
     validator |-> validator, missing |-> missing, default |-> "null"]

\* SchemaNode.get(name): the child of that name, or None.
RECURSIVE GetFrom(_, _, _)
GetFrom(children, name, i) ==
    IF i > Len(children) THEN None
    ELSE IF children[i].name = name THEN Some(children[i])
         ELSE GetFrom(children, name, i + 1)

get(node, name) == GetFrom(node.children, name, 1)

\* SchemaNode.__setitem__(name, newnode): name the node, replace the child of
\* that name or add it at the end.
SetItem(children, name, newnode) ==
    LET named == [newnode EXCEPT !.name = name]
        hits == {i \in 1..Len(children) : children[i].name = name}
    IN IF hits = {} THEN Append(children, named)
       ELSE LET first == CHOOSE i \in hits : \A j \in hits : i <= j
            IN [children EXCEPT ![first] = named]

(***************************************************************************)
(* Id generators                                                           *)
(***************************************************************************)
\* StorageBase.id_generator.regexp
BaselineRegexp == "re_baseline"

\* pydoc.locate(dotted).regexp for the dotted names a configuration may hold:
\* a generator class has a regexp; an unknown name locates None and '' locates
\* the builtins module, neither of which has one (AttributeError).
LocateRegexp(dotted) ==
    CASE dotted = "gen.A" -> Some("re_A")
      [] dotted = "gen.B" -> Some("re_B")
      [] dotted = "gen.C" -> Some("re_C")
      [] OTHER -> None

\* dict.get(key) on the id_generators mapping: the configured string or None.
DictGet(d, key) == IF key \in DOMAIN d THEN Some(d[key]) ELSE None

\* Lines 335-344: the regexp of placeholder rid.
\* kw.id_generators is None when the context has no id_generators (the default
\* [] has no .get: AttributeError).
ResolveRegexpDefaultFirst(id_generators, rid) ==
    IF ~id_generators.some THEN BaselineRegexp
    ELSE LET d == id_generators.v
             resource_id_gen == DictGet(d, FormatGeneratorKey(rid))
             default_id_gen == DictGet(d, N_id_generator)
             id_gen == IF default_id_gen.some /\ default_id_gen.v # ""
                       THEN default_id_gen ELSE resource_id_gen
         IN IF ~id_gen.some THEN BaselineRegexp
            ELSE IF LocateRegexp(id_gen.v).some
                 THEN LocateRegexp(id_gen.v).v ELSE BaselineRegexp

ResolveRegexp(id_generators, rid) ==
    IF ~id_generators.some THEN BaselineRegexp
    ELSE LET d == id_generators.v
             resource_id_gen == DictGet(d, FormatGeneratorKey(rid))
             default_id_gen == DictGet(d, N_id_generator)
             id_gen == IF resource_id_gen.some /\ resource_id_gen.v # ""
                       THEN resource_id_gen ELSE default_id_gen
         IN IF ~id_gen.some THEN BaselineRegexp
            ELSE IF LocateRegexp(id_gen.v).some
                 THEN LocateRegexp(id_gen.v).v ELSE BaselineRegexp

(***************************************************************************)
(* RequestSchema.path: build_path                                          *)
(***************************************************************************)
\* Line 325: the placeholder names of a path, brackets removed.
ResourceIds(path) ==
    LET ms == findall_braces(path)
    IN [i \in 1..Len(ms) |-> SubSeq(ms[i], 2, Len(ms[i]) - 1)]

\* Lines 319-322: {id} becomes {<resource_name>_id} when a resource name is given.
RewritePath(path, resource_name) ==
    IF Truthy(resource_name)
    THEN replace(path, <<"{">> \o N_id \o <<"}">>, FormatIdPlaceholder(resource_name.v))
    ELSE path

\* Lines 346-348: the field name of placeholder rid (resource_name is a string here).
FieldNameNoReset(rid, resource_name) == rid

FieldName(rid, resource_name) ==
    IF rid = resource_name.v \o N__id THEN N_id ELSE rid

\* Lines 333-353: one string node per placeholder, in order, set by name.
RECURSIVE PathChildren(_, _, _, _, _)
PathChildren(rids, i, resource_name, id_generators, acc) ==
    IF i > Len(rids) THEN acc
    ELSE LET regexp == ResolveRegexp(id_generators, rids[i])
             rid == FieldName(rids[i], resource_name)
             field == MkNode(rid, "String", <<>>, regexp, "required")
         IN Once(SetItem(acc, rid, field),
                 LAMBDA children : PathChildren(rids, i + 1, resource_name,
                                                id_generators, children))

\* build_path(node, kwargs): status "deferred" when it returns None, "TypeError"
\* when line 347 adds None and '_id', else "ok" with the path schema.
build_path(kw) ==
    IF ~Truthy(kw.path) THEN [status |-> "deferred"]
    ELSE Once(ResourceIds(RewritePath(kw.path.v, kw.resource_name)),
              LAMBDA rids :
                IF Len(rids) > 0 /\ ~kw.resource_name.some
                THEN [status |-> "TypeError"]
                ELSE [status |-> "ok",
                      schema |-> MkNode(N_path, "MappingSchema",
                                        PathChildren(rids, 1, kw.resource_name,
                                                     kw.id_generators, <<>>),
                                        "", "required")])

(***************************************************************************)
(* Binding contexts for build_path                                         *)
(***************************************************************************)
\* The longest route template, in segments.
MaxSegs == 3

\* Route segments: a literal, and the placeholders {id}, {b_id}, {c_id}.
SegLiteral == <<"/", "x">>
SegId == <<"/", "{", "i", "d", "}">>
SegB == <<"/", "{", "b", "_", "i", "d", "}">>
SegC == <<"/", "{", "c", "_", "i", "d", "}">>
Segments == {SegLiteral, SegId, SegB, SegC}

RECURSIVE Concat(_)
Concat(segs) == IF segs = <<>> THEN <<>> ELSE Head(segs) \o Concat(Tail(segs))

SegmentLists == UNION {[1..n -> Segments] : n \in 0..MaxSegs}

ResourceNames == {None, Some(<<>>), Some(N_b), Some(N_c)}

\* The dotted names a configuration holds: two generators, an empty setting
\* and a name that locates nothing.
GenValues == {"gen.A", "gen.B", "", "no.such"}
GenKeys == {N_id_generator, FormatGeneratorKey(N_b \o N__id)}
IdGeneratorDicts == UNION {[K -> GenValues] : K \in SUBSET GenKeys}
IdGenerators == {None} \cup {Some(d) : d \in IdGeneratorDicts}

PathContexts ==
    {[segs |-> sl, path |-> p, resource_name |-> r, id_generators |-> g] :
        sl \in SegmentLists, p \in {FALSE, TRUE}, r \in ResourceNames,
        g \in IdGenerators}

\* kwargs of the call: path is None when the context has no path.
PathKw(a) ==
    [path |-> IF a.path THEN Some(Concat(a.segs)) ELSE None,
     resource_name |-> a.resource_name,
     id_generators |-> a.id_generators]

Idle == [op |-> "none"]

InitPath ==
    /\ pc = "call"
    /\ arg \in {a \in PathContexts : a.path \/ a.segs = <<>>}
    /\ ret = None
    /\ schema = None
    /\ last = Idle
    /\ binds = 0

CallBuildPath ==
    /\ pc = "call"
    /\ pc' = "done"
    /\ ret' = build_path(PathKw(arg))
    /\ UNCHANGED <<arg, schema, last, binds>>

NextPath == CallBuildPath

SpecPath == InitPath /\ [][NextPath]_vars

\* ---- what the claims say of a context, from its segments ----------------
\* The placeholder a segment writes, or None for a literal.
SegPlaceholder(seg) ==
    CASE seg = SegId -> Some(N_id)
      [] seg = SegB -> Some(N_b \o N__id)
      [] seg = SegC -> Some(N_c \o N__id)
      [] OTHER -> None

\* The placeholders of the context's template, {id} read as {r_id} under a
\* non-empty resource name.
PlaceholdersOf(a) ==
    {IF SegPlaceholder(a.segs[i]).v = N_id /\ Truthy(a.resource_name)
     THEN a.resource_name.v \o N__id ELSE SegPlaceholder(a.segs[i]).v :
        i \in {j \in 1..Len(a.segs) : SegPlaceholder(a.segs[j]).some}}

\* The field a placeholder is filed under.
FieldOf(a, p) ==
    IF a.resource_name.some /\ p = a.resource_name.v \o N__id THEN N_id ELSE p

Configured(o) == o.some /\ o.v # ""

\* The regexp the precedence of the data model gives placeholder p.
ExpectedRegexp(a, p) ==
    LET d == IF a.id_generators.some THEN a.id_generators.v ELSE << >>
        specific == DictGet(d, p \o N__generator)
        default == DictGet(d, N_id_generator)
        chosen == IF Configured(specific) THEN specific
                  ELSE IF Configured(default) THEN default ELSE None
    IN IF chosen.some /\ LocateRegexp(chosen.v).some
       THEN LocateRegexp(chosen.v).v ELSE BaselineRegexp

BuiltOk == pc = "done" /\ arg.path /\ arg.segs # <<>> /\ ret.status = "ok"

\* C1: every placeholder's field carries the regexp of the generator configured
\* for that placeholder if there is one, else of the default id_generator if
\* there is one, else the baseline pattern (also when the chosen setting does
\* not locate a generator); the specific setting wins over the default.
C1_Precedence ==
    BuiltOk =>
        \A p \in PlaceholdersOf(arg) :
            /\ get(ret.schema, FieldOf(arg, p)).some
            /\ get(ret.schema, FieldOf(arg, p)).v.validator = ExpectedRegexp(arg, p)

C1_Witness ==
    /\ BuiltOk
    /\ arg.resource_name = Some(N_b)
    /\ arg.id_generators.some
    /\ DOMAIN arg.id_generators.v = GenKeys
    /\ arg.id_generators.v[N_id_generator] = "gen.A"
    /\ arg.id_generators.v[N_b \o N__id \o N__generator] = "gen.B"
    /\ get(ret.schema, N_id).some
    /\ get(ret.schema, N_id).v.validator = "re_B"

\* C2: under a non-empty resource name the path schema has exactly one string
\* field per distinct placeholder: r_id under the name id, the others under
\* their own names, and nothing else.
C2_OneFieldPerPlaceholder ==
    (pc = "done" /\ arg.path /\ arg.segs # <<>> /\ Truthy(arg.resource_name)) =>
        /\ ret.status = "ok"
        /\ LET cs == ret.schema.children IN
           /\ \A i, j \in 1..Len(cs) : cs[i].name = cs[j].name => i = j
           /\ {cs[i].name : i \in 1..Len(cs)} =
                 {FieldOf(arg, p) : p \in PlaceholdersOf(arg)}
           /\ \A i \in 1..Len(cs) : cs[i].cls = "String" /\ cs[i].validator # ""

C2_Witness ==
    /\ pc = "done"
    /\ arg.path
    /\ arg.segs = <<SegB, SegLiteral, SegId>>
    /\ arg.resource_name = Some(N_b)
    /\ ret.status = "ok"
    /\ Len(ret.schema.children) = 1
    /\ ret.schema.children[1].name = N_id

\* C10: with no resource name, binding a template that has placeholders
\* completes and yields one regexp-constrained string field per placeholder,
\* each under its own name.
C10_NoResourceName ==
    (pc = "done" /\ arg.path /\ ~arg.resource_name.some
        /\ PlaceholdersOf(arg) # {}) =>
        /\ ret.status = "ok"
        /\ {ret.schema.children[i].name : i \in 1..Len(ret.schema.children)} =
              PlaceholdersOf(arg)

(***************************************************************************)
(* Deserialization (colander.SchemaNode.deserialize)                       *)
(***************************************************************************)
\* cstructs: colander.null, a mapping (a function from names to cstructs) and
\* a string.
Null == [t |-> "null"]
Map(m) == [t |-> "map", m |-> m]
Str(s) == [t |-> "str", s |-> s]
EmptyMap == Map(<< >>)

\* Results: an appstruct, colander.drop, or colander.Invalid with the failing
\* nodes (each a path of names from the deserialized node) and their messages.
Ok(v) == [status |-> "ok", value |-> v]
Drop == [status |-> "drop"]
Invalid(errors) == [status |-> "invalid", errors |-> errors]

\* Mapping(unknown=...) of each mapping class (schema_type, lines 89-94, 162,
\* 187, 272; colander's default is 'ignore').
Unknown(cls) ==
    CASE cls = "RecordSchema" -> "raise"
      [] cls \in {"ResourceSchema", "HeaderSchema", "PatchHeaderSchema"} -> "preserve"
      [] OTHER -> "ignore"

\* colander.Regex(regexp)(node, value) on the identifiers requests carry.
RegexMatches(regexp, s) ==
    CASE s = "abc" -> regexp \in {BaselineRegexp, "re_B"}
      [] s = "0f3a" -> TRUE
      [] OTHER -> FALSE

Prefix(name, errors) == {<<(<<name>> \o e[1]), e[2]>> : e \in errors}

RECURSIVE deserialize(_, _)

\* Mapping._impl: each child in order pops its key from the value (null when
\* it is not there) and is deserialized; a dropped child is left out; unknown
\* keys are raised, preserved or ignored; the children's failures are raised
\* together.
MappingImpl(node, value) ==
    LET cs == node.children
        n == Len(cs)
        popped(i) == \E j \in 1..(i - 1) : cs[j].name = cs[i].name
        subval(i) == IF cs[i].name \in DOMAIN value /\ ~popped(i)
                     THEN value[cs[i].name] ELSE Null
        rest == DOMAIN value \ {cs[i].name : i \in 1..n}
    IN Once({<<i, deserialize(cs[i], subval(i))>> : i \in 1..n},
            LAMBDA rs :
              LET errors == UNION {Prefix(cs[r[1]].name, r[2].errors) :
                                      r \in {x \in rs : x[2].status = "invalid"}}
                  kept == {r \in rs : r[2].status = "ok"}
                  lastOf(k) == CHOOSE r \in kept :
                                  /\ cs[r[1]].name = k
                                  /\ \A x \in kept : cs[x[1]].name = k => x[1] <= r[1]
                  result == [k \in {cs[r[1]].name : r \in kept} |-> lastOf(k)[2].value]
              IN IF Unknown(node.cls) = "raise" /\ rest # {}
                 THEN Invalid({<<(<< >>), "Unrecognized keys in mapping">>})
                 ELSE IF errors # {} THEN Invalid(errors)
                 ELSE IF Unknown(node.cls) = "preserve"
                      THEN Ok(Map([k \in DOMAIN result \cup rest |->
                                      IF k \in rest THEN value[k] ELSE result[k]]))
                      ELSE Ok(Map(result)))

\* SchemaNode.deserialize: null takes the missing policy (Required when there
\* is none); a mapping node deserializes its children; a string node rejects
\* the empty string as null and runs its validator; a sequence node (the JSON
\* Patch body) rejects the mappings and strings modelled here as not iterable.
deserialize(node, cstruct) ==
    IF cstruct = Null
    THEN IF node.missing = "required" THEN Invalid({<<(<< >>), "Required">>})
         ELSE Drop
    ELSE IF node.cls = "String"
    THEN IF cstruct.t # "str" THEN Invalid({<<(<< >>), "not a string">>})
         ELSE IF cstruct.s = ""
              THEN IF node.missing = "required"
                   THEN Invalid({<<(<< >>), "Required">>}) ELSE Drop
         ELSE IF node.validator # "" /\ ~RegexMatches(node.validator, cstruct.s)
              THEN Invalid({<<(<< >>), "">>})
         ELSE Ok(cstruct)
    ELSE IF node.cls = "JsonPatchBodySchema"
    THEN Invalid({<<(<< >>), "not iterable">>})
    ELSE IF cstruct.t # "map" THEN Invalid({<<(<< >>), "not a mapping type">>})
         ELSE MappingImpl(node, cstruct.m)

(***************************************************************************)
(* Binding (colander.SchemaNode.bind and the deferred attributes)          *)
(***************************************************************************)
RequestClasses == {"RequestSchema", "PayloadRequestSchema", "JsonPatchRequestSchema"}

\* The attributes a class declares with @colander.deferred (lines 248, 263,
\* 309, 360, 364, 385); JsonPatchRequestSchema inherits RequestSchema's, its
\* own body and querystring being schema nodes (lines 396-397), which the
\* class keeps as children and not as attributes.
ClassDeferred(cls) ==
    CASE cls \in {"RequestSchema", "JsonPatchRequestSchema"} ->
            {N_header, N_path, N_querystring}
      [] cls = "PayloadRequestSchema" -> {N_body, N_header, N_path, N_querystring}
      [] cls = "RecordSchema" -> {N_data, N_permissions}
      [] OTHER -> {}

\* The deferred function a class attribute holds.
ClassFn(k) ==
    CASE k = N_body -> "body"
      [] k = N_data -> "data"
      [] k = N_header -> "header"
      [] k = N_path -> "path"
      [] k = N_permissions -> "permissions"
      [] k = N_querystring -> "querystring"

Deferreds == {"body", "data", "header", "path", "permissions", "querystring",
              "build_path", "get_body", "get_perms"}

\* getattr(self, k): the instance attribute, else the class attribute.
GetAttr(node, k) ==
    IF node.attrs[k] # "unset" THEN node.attrs[k]
    ELSE IF k \in ClassDeferred(node.cls) THEN ClassFn(k) ELSE "unset"

IsDeferred(v) == v \in Deferreds

HeaderSchema == MkNode(<<>>, "HeaderSchema", <<>>, "", "drop")
QuerySchema == MkNode(<<>>, "QuerySchema", <<>>, "", "drop")
JsonPatchBodySchema == MkNode(N_body, "JsonPatchBodySchema", <<>>, "", "required")

\* A newly constructed schema: its class's schema nodes in declaration order.
Fresh(cls) ==
    MkNode(<<>>, cls,
           IF cls = "JsonPatchRequestSchema"
           THEN <<JsonPatchBodySchema, [QuerySchema EXCEPT !.name = N_querystring]>>
           ELSE <<>>,
           "", "required")

\* What a deferred returns: a schema node, a value to set as the attribute,
\* or the TypeError of build_path.
RetNode(n) == [kind |-> "node", node |-> n]
RetValue(v) == [kind |-> "value", value |-> v]
RetError == [kind |-> "error"]

\* Lines 248-261: the data schema, made optional when it accepts {}.
DataNoProbe(data) == data

Data(data) ==
    IF deserialize(data, EmptyMap).status = "invalid" THEN data
    ELSE [data EXCEPT !.default = "{}", !.missing = "drop"]

\* x or colander.deferred(inner), for an optional node x.
OrDeferred(x, inner) == IF x.some THEN RetNode(x.v) ELSE RetValue(inner)

OrNone(x) == IF x.some THEN RetNode(x.v) ELSE RetValue("None")

PathResult(kw, otherwise) ==
    Once(build_path(kw),
         LAMBDA r : CASE r.status = "TypeError" -> RetError
                      [] r.status = "ok" -> RetNode(r.schema)
                      [] OTHER -> RetValue(otherwise))

\* deferred.__call__(node, kw) for each deferred of the module.
CallDeferred(fn, kw) ==
    CASE fn = "path" -> PathResult(kw, "build_path")
      [] fn = "build_path" -> PathResult(kw, "None")
      [] fn = "header" -> OrNone(kw.header)
      [] fn = "querystring" -> OrNone(kw.querystring)
      [] fn = "body" -> OrDeferred(kw.body, "get_body")
      [] fn = "get_body" -> OrNone(kw.body)
      [] fn = "data" -> IF kw.data.some THEN RetNode(Data(kw.data.v))
                        ELSE RetValue("None")
      [] fn = "permissions" -> OrDeferred(kw.permissions, "get_perms")
      [] fn = "get_perms" -> OrNone(kw.permissions)

\* RequestSchema.after_bind, lines 368-373.
AfterBind(node) ==
    LET h == IF get(node, N_header).some THEN node.children
             ELSE SetItem(node.children, N_header, HeaderSchema)
        q == IF GetFrom(h, N_querystring, 1).some THEN h
             ELSE SetItem(h, N_querystring, QuerySchema)
    IN [node EXCEPT !.children = q]

RECURSIVE BindNode(_, _)

\* One name k of dir(self): a deferred attribute is called; a node it returns
\* is set as the child k, anything else as the attribute k.  st is the node so
\* far, or the error raised.
BindAttr(st, kw, k) ==
    IF st.err \/ ~IsDeferred(GetAttr(st.node, k)) THEN st
    ELSE Once(CallDeferred(GetAttr(st.node, k), kw),
              LAMBDA r :
                CASE r.kind = "error" -> [err |-> TRUE]
                  [] r.kind = "node" ->
                        [err |-> FALSE,
                         node |-> [st.node EXCEPT !.children =
                                      SetItem(st.node.children, k, r.node)]]
                  [] OTHER ->
                        [err |-> FALSE,
                         node |-> [st.node EXCEPT !.attrs[k] = r.value]])

\* for k in dir(self), in dir's sorted order, from the i-th name on.
RECURSIVE BindAttrs(_, _, _)
BindAttrs(st, kw, i) ==
    IF i > Len(DirOrder) THEN st
    ELSE Once(BindAttr(st, kw, DirOrder[i]),
              LAMBDA next : BindAttrs(next, kw, i + 1))

\* SchemaNode._bind(kw): the children first, then the node's own deferred
\* attributes, then after_bind where the class has one.
BindNode(node, kw) ==
    Once({<<i, BindNode(node.children[i], kw)>> : i \in 1..Len(node.children)},
         LAMBDA bs :
           IF \E b \in bs : b[2].err THEN [err |-> TRUE]
           ELSE Once(BindAttrs([err |-> FALSE,
                                node |-> [node EXCEPT !.children =
                                    [i \in 1..Len(node.children) |->
                                        (CHOOSE b \in bs : b[1] = i)[2].node]]],
                               kw, 1),
                     LAMBDA b :
                       IF b.err THEN b
                       ELSE IF node.cls \in RequestClasses
                            THEN [err |-> FALSE, node |-> AfterBind(b.node)]
                            ELSE b))

(***************************************************************************)
(* A request schema's life: construction, binds, validation of a request   *)
(***************************************************************************)
\* How many times a schema is bound.
MaxBinds == 2

N_title == <<"t", "i", "t", "l", "e">>
N_bogus == <<"b", "o", "g", "u", "s">>

\* Data schemas a resource supplies: every field defaulted, or one required.
DataOptional ==
    MkNode(<<>>, "ResourceSchema",
           <<MkNode(N_title, "String", <<>>, "", "drop")>>, "", "required")
DataRequired ==
    MkNode(<<>>, "ResourceSchema",
           <<MkNode(N_title, "String", <<>>, "", "required")>>, "", "required")

\* The permissions schema a shareable resource supplies, optional in the body.
PermissionsNode == MkNode(<<>>, "PermissionsSchema", <<>>, "", "drop")

\* Header, querystring and body schemas a view supplies.
SuppliedHeader == MkNode(<<>>, "PatchHeaderSchema", <<>>, "", "drop")
SuppliedQuery == MkNode(<<>>, "CollectionQuerySchema", <<>>, "", "drop")

KwNone ==
    [path |-> None, resource_name |-> None, id_generators |-> None,
     header |-> None, querystring |-> None, body |-> None, data |-> None,
     permissions |-> None]

SuppliedBody ==
    BindNode(MkNode(<<>>, "RecordSchema", <<>>, "", "required"),
             [KwNone EXCEPT !.data = Some(DataOptional)]).node

\* The route part of a bind context: none, a record route of resource b with
\* its generators, a nested route, and a route bound without a resource name.
RouteContexts ==
    {[path |-> None, resource_name |-> None, id_generators |-> None],
     [path |-> Some(SegLiteral \o SegId), resource_name |-> Some(N_b),
      id_generators |-> Some([k \in {N_id_generator} |-> "gen.A"])],
     [path |-> Some(SegB \o SegLiteral \o SegId), resource_name |-> Some(N_c),
      id_generators |-> None],
     [path |-> Some(SegLiteral \o SegId), resource_name |-> None,
      id_generators |-> None]}

RequestKws ==
    {[KwNone EXCEPT !.path = r.path, !.resource_name = r.resource_name,
                    !.id_generators = r.id_generators, !.header = h,
                    !.querystring = q, !.body = b] :
        r \in RouteContexts, h \in {None, Some(SuppliedHeader)},
        q \in {None, Some(SuppliedQuery)}, b \in {None, Some(SuppliedBody)}}

RecordKws ==
    {[KwNone EXCEPT !.data = d, !.permissions = p] :
        d \in {None, Some(DataOptional), Some(DataRequired)},
        p \in {None, Some(PermissionsNode)}}

KwsFor(cls) == IF cls = "RecordSchema" THEN RecordKws ELSE RequestKws

\* Raw requests: colander.null, or a mapping with or without path parameters
\* and with or without a body; an absent body arrives as the empty object.
PathCstructs ==
    {Map([k \in {N_id, N_b \o N__id} |-> Str(v)]) : v \in {"abc", "!!"}}
BodyCstructs ==
    {EmptyMap,
     Map([k \in {N_data} |-> EmptyMap]),
     Map([k \in {N_data} |-> Map([f \in {N_title} |-> Str("t")])]),
     Map([k \in {N_bogus} |-> Str("x")])}
RequestCstructs ==
    {Null, EmptyMap}
    \cup {Map([k \in {N_body} |-> b]) : b \in BodyCstructs}
    \cup {Map([k \in {N_path} |-> p]) : p \in PathCstructs}
    \cup {Map([k \in {N_path, N_body} |-> IF k = N_path THEN p ELSE b]) :
            p \in PathCstructs, b \in BodyCstructs}

CstructsFor(cls) ==
    IF cls = "RecordSchema" THEN {Null} \cup BodyCstructs ELSE RequestCstructs

Init ==
    /\ pc = "run"
    /\ arg = None
    /\ ret = None
    /\ schema \in {Fresh(c) : c \in RequestClasses \cup {"RecordSchema"}}
    /\ last = Idle
    /\ binds = 0

\* schema = schema.bind(**kw); a TypeError leaves the schema as it was.
Bind ==
    /\ pc = "run"
    /\ binds < MaxBinds
    /\ \E kw \in KwsFor(schema.cls) :
        LET b == BindNode(schema, kw)
        IN /\ schema' = IF b.err THEN schema ELSE b.node
           /\ last' = [op |-> "bind", kw |-> kw, before |-> schema,
                       err |-> b.err]
    /\ binds' = binds + 1
    /\ UNCHANGED <<pc, arg, ret>>

\* RequestSchema.deserialize(cstruct), lines 375-379; a RecordSchema has
\* colander's.
RequestDeserialize(node, cstruct) == deserialize(node, cstruct)

Deserialize ==
    /\ last.op # "deserialize"
    /\ \E c \in CstructsFor(schema.cls) :
        last' = [op |-> "deserialize", cstruct |-> c,
                 result |-> RequestDeserialize(schema, c)]
    /\ UNCHANGED <<pc, arg, ret, schema, binds>>

Next == Bind \/ Deserialize

Spec == Init /\ [][Next]_vars

(***************************************************************************)
(* A record schema bound, given to a payload request schema as its body,   *)
(* and a request validated                                                 *)
(***************************************************************************)
\* How many times the record schema is bound before it is used as a body.
MaxRecordBinds == 2

InitBody ==
    /\ pc = "record"
    /\ arg = None
    /\ ret = None
    /\ schema = Fresh("RecordSchema")
    /\ last = Idle
    /\ binds = 0

BindRecord ==
    /\ pc = "record"
    /\ binds < MaxRecordBinds
    /\ \E kw \in RecordKws :
        /\ schema' = BindNode(schema, kw).node
        /\ last' = [op |-> "bind", kw |-> kw, before |-> schema, err |-> FALSE]
    /\ binds' = binds + 1
    /\ UNCHANGED <<pc, arg, ret>>

\* PayloadRequestSchema().bind(body=record, ...), with or without the route.
BindBody ==
    /\ pc = "record"
    /\ binds > 0
    /\ \E r \in {x \in RouteContexts : x.path.some => x.resource_name.some} :
        LET kw == [KwNone EXCEPT !.body = Some(schema), !.path = r.path,
                                 !.resource_name = r.resource_name,
                                 !.id_generators = r.id_generators]
        IN /\ schema' = BindNode(Fresh("PayloadRequestSchema"), kw).node
           /\ last' = [op |-> "bind", kw |-> kw,
                       before |-> Fresh("PayloadRequestSchema"), err |-> FALSE]
    /\ pc' = "request"
    /\ UNCHANGED <<arg, ret, binds>>

ValidateRequest ==
    /\ pc = "request"
    /\ Deserialize

NextBody == BindRecord \/ BindBody \/ ValidateRequest

SpecBody == InitBody /\ [][NextBody]_vars

\* ---- claims about binding and validation --------------------------------
\* The sub-schemas a class binds late (lines 263-269, 309-358, 385-390).
LateBound(cls) ==
    CASE cls = "PayloadRequestSchema" -> {N_path, N_body}
      [] cls = "RecordSchema" -> {N_permissions}
      [] OTHER -> {N_path}

Supplies(kw, k) ==
    CASE k = N_path -> Truthy(kw.path)
      [] k = N_body -> kw.body.some
      [] k = N_permissions -> kw.permissions.some
      [] k = N_header -> kw.header.some
      [] k = N_querystring -> kw.querystring.some

Bound == last.op = "bind" /\ ~last.err

\* C3: a bind that does not supply a late-bound sub-schema leaves it deferred,
\* and a later bind that supplies it resolves it to the sub-schema a single
\* bind with that context produces.
C3_TwoPhase ==
    Bound =>
        \A k \in LateBound(schema.cls) :
            IsDeferred(GetAttr(last.before, k)) =>
                IF Supplies(last.kw, k)
                THEN get(schema, k) = get(BindNode(Fresh(schema.cls), last.kw).node, k)
                ELSE IsDeferred(GetAttr(schema, k))

\* A request schema whose path is still deferred: never bound, or bound
\* without a path.
Declared(node) ==
    /\ node.cls \in RequestClasses
    /\ ~get(node, N_path).some
    /\ IsDeferred(GetAttr(node, N_path))

\* C4: validating with a schema still in the Declared state is fatal: neither
\* a validated request nor an ordinary validation failure comes back.
C4_DeclaredIsFatal ==
    (last.op = "deserialize" /\ Declared(schema)) =>
        last.result.status \notin {"ok", "invalid"}

Named(node, k) == [node EXCEPT !.name = k]

DefaultFor(k) == IF k = N_header THEN HeaderSchema ELSE QuerySchema

KwOf(kw, k) == IF k = N_header THEN kw.header ELSE kw.querystring

\* C9: after any bind a request schema has a header and a querystring
\* sub-schema: the one the context supplies, else the one already there, else
\* the default.
C9_HeaderAndQuery ==
    (Bound /\ schema.cls \in RequestClasses) =>
        \A k \in {N_header, N_querystring} :
            /\ get(schema, k).some
            /\ IF Supplies(last.kw, k)
               THEN get(schema, k).v = Named(KwOf(last.kw, k).v, k)
               ELSE IF get(last.before, k).some
                    THEN get(schema, k) = get(last.before, k)
                    ELSE get(schema, k).v = Named(DefaultFor(k), k)

\* ---- claims about the body ----------------------------------------------
StartsWithBody(e) == Len(e[1]) >= 1 /\ e[1][1] = N_body

BodyErrors ==
    IF last.result.status = "invalid"
    THEN {e \in last.result.errors : StartsWithBody(e)} ELSE {}

OtherErrors ==
    IF last.result.status = "invalid"
    THEN {e \in last.result.errors : ~StartsWithBody(e)} ELSE {}

\* A request with an absent body was validated by a schema whose body is a
\* record schema bound to a data schema.
AbsentBodyValidated ==
    /\ last.op = "deserialize"
    /\ schema.cls = "PayloadRequestSchema"
    /\ last.cstruct.t = "map"
    /\ N_body \in DOMAIN last.cstruct.m
    /\ last.cstruct.m[N_body] = EmptyMap
    /\ get(schema, N_body).some
    /\ get(get(schema, N_body).v, N_data).some

BoundData == get(get(schema, N_body).v, N_data).v

RequiredFields(data) ==
    {data.children[i].name :
        i \in {j \in 1..Len(data.children) : data.children[j].missing = "required"}}

\* C8 with the error naming the required field: with every data field defaulted an absent body validates to
\* the empty object; with a required field it fails with an error naming that
\* field.
C8_AsWritten ==
    AbsentBodyValidated =>
        IF RequiredFields(BoundData) = {}
        THEN /\ BodyErrors = {}
             /\ OtherErrors = {} =>
                    /\ last.result.status = "ok"
                    /\ last.result.value.m[N_body] = EmptyMap
        ELSE /\ BodyErrors # {}
             /\ \A e \in BodyErrors : e[1][Len(e[1])] \in RequiredFields(BoundData)

\* C8: with every data field defaulted an absent body validates to the empty
\* object; with a required field it fails with the single error Required on
\* the body's data field.
C8_BodyOptionality ==
    AbsentBodyValidated =>
        IF RequiredFields(BoundData) = {}
        THEN /\ BodyErrors = {}
             /\ OtherErrors = {} =>
                    /\ last.result.status = "ok"
                    /\ last.result.value.m[N_body] = EmptyMap
        ELSE BodyErrors = {<<(<<N_body, N_data>>), "Required">>}

C8_Witness ==
    /\ AbsentBodyValidated
    /\ RequiredFields(BoundData) = {}
    /\ Len(BoundData.children) > 0
    /\ last.result.status = "ok"
    /\ last.result.value.m[N_body] = EmptyMap

(***************************************************************************)
(* Querystrings: native_value, FieldList, QuerySchema.deserialize          *)
(***************************************************************************)
\* Typed values: raw strings are Str(<characters>), colander.null is Null.
Bool(b) == [t |-> "bool", b |-> b]
Integer(n) == [t |-> "int", n |-> n]
NativeNone == [t |-> "none"]
List(items) == [t |-> "list", items |-> items]

Digits == {"0", "1", "2", "3", "4", "5", "6", "7", "8", "9"}

DigitValue(ch) ==
    CASE ch = "0" -> 0 [] ch = "1" -> 1 [] ch = "2" -> 2 [] ch = "3" -> 3
      [] ch = "4" -> 4 [] ch = "5" -> 5 [] ch = "6" -> 6 [] ch = "7" -> 7
      [] ch = "8" -> 8 [] ch = "9" -> 9

AllDigits(s) == Len(s) > 0 /\ \A i \in 1..Len(s) : s[i] \in Digits

\* The integer grammar: an optional sign, then digits.
IsInteger(s) ==
    IF Len(s) > 0 /\ s[1] = "-" THEN AllDigits(Tail(s)) ELSE AllDigits(s)

RECURSIVE DigitsToInt(_, _)
DigitsToInt(s, acc) ==
    IF s = <<>> THEN acc ELSE DigitsToInt(Tail(s), 10 * acc + DigitValue(Head(s)))

ToInt(s) == IF s[1] = "-" THEN 0 - DigitsToInt(Tail(s), 0) ELSE DigitsToInt(s, 0)

\* kinto.core.utils.native_value: the literals true, false and null, an
\* integer, or the string itself; anything that is not a string is returned
\* as it is.
native_value(v) ==
    IF v.t # "str" THEN v
    ELSE CASE v.s = <<"t", "r", "u", "e">> -> Bool(TRUE)
           [] v.s = <<"f", "a", "l", "s", "e">> -> Bool(FALSE)
           [] v.s = <<"n", "u", "l", "l">> -> NativeNone
           [] IsInteger(v.s) -> Integer(ToInt(v.s))
           [] OTHER -> v

\* str.split(','): the tokens between the commas, in order.
RECURSIVE SplitFrom(_, _, _)
SplitFrom(s, i, token) ==
    IF i > Len(s) THEN <<token>>
    ELSE IF s[i] = "," THEN <<token>> \o SplitFrom(s, i + 1, <<>>)
         ELSE SplitFrom(s, i + 1, Append(token, s[i]))

split_commas(s) == SplitFrom(s, 1, <<>>)

\* kinto.core.schema.FieldList().deserialize: a string is split on commas into
\* the list of its tokens; colander.null is dropped.
FieldList_deserialize(v) ==
    IF v.t = "str"
    THEN LET tokens == split_commas(v.s)
         IN Ok(List([i \in 1..Len(tokens) |-> Str(tokens[i])]))
    ELSE Drop

\* positive_big_integer, line 15; its upper bound 2**63 (line 13) is beyond
\* every integer a querystring of the model holds.
positive_big_integer(n) == n >= 0

K_limit == <<"_", "l", "i", "m", "i", "t">>
K_sort == <<"_", "s", "o", "r", "t">>
K_token == <<"_", "t", "o", "k", "e", "n">>
K_since == <<"_", "s", "i", "n", "c", "e">>
K_to == <<"_", "t", "o">>
K_before == <<"_", "b", "e", "f", "o", "r", "e">>
K_last_modified == <<"l", "a", "s", "t", "_", "m", "o", "d", "i", "f", "i", "e", "d">>
K_fields == <<"_", "f", "i", "e", "l", "d", "s">>
K_in_ == <<"i", "n", "_">>
K_exclude_ == <<"e", "x", "c", "l", "u", "d", "e", "_">>

Field(name, typ) == [name |-> name, typ |-> typ]

\* Lines 218-228.
CollectionQueryFields ==
    <<Field(K_limit, "Integer"), Field(K_sort, "FieldList"),
      Field(K_token, "String"), Field(K_since, "Integer"),
      Field(K_to, "Integer"), Field(K_before, "Integer"),
      Field(N_id, "String"), Field(K_last_modified, "Integer")>>

\* The declared fields of each querystring schema class, lines 179-240.
DeclaredFields(cls) ==
    CASE cls = "CollectionQuerySchema" -> CollectionQueryFields
      [] cls = "RecordGetQuerySchema" -> <<Field(K_fields, "FieldList")>>
      [] cls = "CollectionGetQuerySchema" ->
            Append(CollectionQueryFields, Field(K_fields, "FieldList"))
      [] OTHER -> <<>>

\* A declared field on its raw value: a QueryField is dropped when absent or
\* empty; an Integer must parse and satisfy positive_big_integer.
DeserializeField(typ, v) ==
    IF v = Null THEN Drop
    ELSE CASE typ = "FieldList" -> FieldList_deserialize(v)
           [] typ = "String" -> IF v.s = <<>> THEN Drop ELSE Ok(v)
           [] typ = "Integer" ->
                IF v.s = <<>> THEN Drop
                ELSE IF ~IsInteger(v.s) THEN Invalid({"is not a number"})
                ELSE IF ~positive_big_integer(ToInt(v.s))
                     THEN Invalid({"is less than minimum value 0"})
                ELSE Ok(Integer(ToInt(v.s)))

\* super(QuerySchema, self).deserialize(cstruct): Mapping(unknown='ignore')
\* over the declared fields, dropped as a whole when the cstruct is null
\* (missing = colander.drop, line 184).
DeclaredStage(cls, cstruct) ==
    IF cstruct = Null THEN Drop
    ELSE LET fs == DeclaredFields(cls)
             raw(i) == IF fs[i].name \in DOMAIN cstruct.m
                       THEN cstruct.m[fs[i].name] ELSE Null
         IN Once({<<i, DeserializeField(fs[i].typ, raw(i))>> : i \in 1..Len(fs)},
                 LAMBDA rs :
                   IF \E r \in rs : r[2].status = "invalid"
                   THEN Invalid({fs[r[1]].name :
                                    r \in {x \in rs : x[2].status = "invalid"}})
                   ELSE LET kept == {r \in rs : r[2].status = "ok"}
                        IN Ok([k \in {fs[r[1]].name : r \in kept} |->
                                 (CHOOSE r \in kept : fs[r[1]].name = k)[2].value]))

\* Line 207: the keys of list filters.
IsListFilterInOnly(k) == startswith(k, K_in_)

IsListFilter(k) == startswith(k, K_in_) \/ startswith(k, K_exclude_)

\* dict.update: the keys of b overwrite those of a.
UpdateKeepingOld(a, b) ==
    [k \in DOMAIN a \cup DOMAIN b |-> IF k \in DOMAIN a THEN a[k] ELSE b[k]]

Update(a, b) ==
    [k \in DOMAIN a \cup DOMAIN b |-> IF k \in DOMAIN b THEN b[k] ELSE a[k]]

\* Lines 204-212: the filters inferred from every key of the cstruct.
InferredFilters(m) ==
    LET listed(k) == FieldList_deserialize(m[k])
        keys == {k \in DOMAIN m : IsListFilter(k) => listed(k).status = "ok"}
    IN [k \in keys |->
          IF IsListFilter(k)
          THEN List([i \in 1..Len(listed(k).value.items) |->
                        native_value(listed(k).value.items[i])])
          ELSE native_value(m[k])]

\* QuerySchema.deserialize, lines 190-215.
QuerySchema_deserialize(cls, cstruct) ==
    Once(DeclaredStage(cls, cstruct),
         LAMBDA schema_values :
           IF schema_values.status # "ok" THEN schema_values
           ELSE Ok(Update(InferredFilters(cstruct.m), schema_values.value)))

\* ---- querystrings of the model ------------------------------------------
\* The most keys a querystring holds.
MaxQueryKeys == 2

QueryKeys ==
    {N_id, K_limit, K_sort, <<"i", "n", "_", "x">>, <<"e", "x", "c", "l", "u", "d", "e", "_", "x">>, <<"x">>, <<"i", "n">>}

QueryValues ==
    {Null, Str(<<"a", ",", "b">>), Str(<<"1", ",", "t", "r", "u", "e">>), Str(<<"1", "0">>), Str(<<"n", "u", "l", "l">>),
     Str(<<"a", "b", "c">>), Str(<<"-", "5">>)}

QueryCstructs ==
    {Null} \cup
    UNION {{Map(m) : m \in [K -> QueryValues]} :
              K \in {X \in SUBSET QueryKeys : Cardinality(X) <= MaxQueryKeys}}

QueryClasses == {"QuerySchema", "CollectionQuerySchema", "RecordGetQuerySchema"}

InitQuery ==
    /\ pc = "call"
    /\ arg \in {[cls |-> c, cstruct |-> q] : c \in QueryClasses, q \in QueryCstructs}
    /\ ret = None
    /\ schema = None
    /\ last = Idle
    /\ binds = 0

CallQueryDeserialize ==
    /\ pc = "call"
    /\ pc' = "done"
    /\ ret' = QuerySchema_deserialize(arg.cls, arg.cstruct)
    /\ UNCHANGED <<arg, schema, last, binds>>

NextQuery == CallQueryDeserialize

SpecQuery == InitQuery /\ [][NextQuery]_vars

DeclaredNames(cls) == {DeclaredFields(cls)[i].name : i \in 1..Len(DeclaredFields(cls))}

\* The values the filter inference can give a raw value: its native value, or
\* the list of the native values of its comma-separated tokens.
NativeTokens(v) ==
    List([i \in 1..Len(split_commas(v.s)) |-> native_value(Str(split_commas(v.s)[i]))])

InferredValues(v) ==
    {native_value(v)} \cup (IF v.t = "str" THEN {NativeTokens(v)} ELSE {})

\* C5: where the declared schema produced a value for a key the result holds
\* that value; an inferred value appears only for a key the declared schema
\* did not produce; a dropped declared stage is the result, with no filter.
C5_DeclaredWins ==
    pc = "done" =>
        LET declared == DeclaredStage(arg.cls, arg.cstruct) IN
        /\ declared.status = "drop" => ret = Drop
        /\ declared.status = "ok" =>
              /\ ret.status = "ok"
              /\ \A k \in DOMAIN ret.value :
                    IF k \in DOMAIN declared.value
                    THEN ret.value[k] = declared.value[k]
                    ELSE /\ k \in DOMAIN arg.cstruct.m
                         /\ ret.value[k] \in InferredValues(arg.cstruct.m[k])
              /\ DOMAIN declared.value \subseteq DOMAIN ret.value

C5_Witness ==
    /\ pc = "done"
    /\ arg.cls = "CollectionQuerySchema"
    /\ arg.cstruct # Null
    /\ N_id \in DOMAIN arg.cstruct.m
    /\ arg.cstruct.m[N_id] = Str(<<"1", "0">>)
    /\ ret.status = "ok"
    /\ ret.value[N_id] = Str(<<"1", "0">>)
    /\ native_value(arg.cstruct.m[N_id]) = Integer(10)

\* C6: an undeclared in_ or exclude_ key maps to the list of its
\* comma-separated tokens, each coerced by native_value, or is left out when
\* its value is no list, and never fails the validation; any other undeclared
\* key maps to the native_value of its value.
C6_FieldFilters ==
    (pc = "done" /\ arg.cstruct # Null) =>
        /\ ret.status = "invalid" =>
              \E k \in DOMAIN arg.cstruct.m : k \in DeclaredNames(arg.cls)
        /\ ret.status = "ok" =>
              \A k \in DOMAIN arg.cstruct.m \ DeclaredNames(arg.cls) :
                LET v == arg.cstruct.m[k] IN
                IF startswith(k, K_in_) \/ startswith(k, K_exclude_)
                THEN IF v.t = "str"
                     THEN /\ k \in DOMAIN ret.value
                          /\ ret.value[k] = NativeTokens(v)
                     ELSE k \notin DOMAIN ret.value
                ELSE /\ k \in DOMAIN ret.value
                     /\ ret.value[k] = native_value(v)

C6_Witness ==
    /\ pc = "done"
    /\ arg.cstruct # Null
    /\ DOMAIN arg.cstruct.m = {<<"e", "x", "c", "l", "u", "d", "e", "_", "x">>, <<"i", "n", "_", "x">>}
    /\ arg.cstruct.m[<<"e", "x", "c", "l", "u", "d", "e", "_", "x">>] = Str(<<"1", ",", "t", "r", "u", "e">>)
    /\ arg.cstruct.m[<<"i", "n", "_", "x">>] = Null
    /\ ret.status = "ok"
    /\ DOMAIN ret.value = {<<"e", "x", "c", "l", "u", "d", "e", "_", "x">>}
    /\ ret.value[<<"e", "x", "c", "l", "u", "d", "e", "_", "x">>] = List(<<Integer(1), Bool(TRUE)>>)

(***************************************************************************)
(* PermissionsSchema, lines 95-147                                         *)
(***************************************************************************)
\* A permissions cstruct is colander.null or a dict, written as the sequence
\* of its <<permission, principals>> items in iteration order.
Dict(items) == [t |-> "dict", items |-> items]

Keys(items) == {items[i][1] : i \in 1..Len(items)}

ItemOf(items, key) == (CHOOSE i \in 1..Len(items) : items[i][1] = key)

\* colander.SchemaNode(colander.String()) on one principal: the empty string
\* is colander.null, and the node is required.
PrincipalErrors(perm, principals) ==
    {<<perm, i, "Required">> : i \in {j \in 1..Len(principals) : principals[j] = ""}}

\* _get_node_principals, lines 144-147.
get_node_principals_required(perm) == [name |-> perm, missing |-> "required"]

get_node_principals(perm) == [name |-> perm, missing |-> "drop"]

\* __init__, lines 111-116: one child per known permission.
PermissionChildren(known_perms) ==
    [i \in 1..Len(known_perms) |-> get_node_principals(known_perms[i])]

\* schema_type, lines 118-122.
schema_type(known_perms) == IF known_perms # <<>> THEN "raise" ELSE "preserve"

\* colander.OneOf(choices=known_perms) over the keys in iteration order,
\* lines 133-134: the first key that is no choice raises.
OneOfErrors(known_perms, items) ==
    LET bad == {i \in 1..Len(items) :
                    \A j \in 1..Len(known_perms) : known_perms[j] # items[i][1]}
    IN IF bad = {} THEN {}
       ELSE LET first == CHOOSE i \in bad : \A j \in bad : i <= j
            IN {<<items[first][1], "is not one of", known_perms>>}

\* super(PermissionsSchema, self).deserialize: the mapping over the children.
\* A null cstruct is missing, and the node is required; keys no child takes
\* are rejected or preserved as schema_type says.
MappingOfPrincipals(known_perms, cstruct) ==
    IF cstruct = Null THEN Invalid({"Required"})
    ELSE
    LET items == cstruct.items
        children == PermissionChildren(known_perms)
        names == {children[i].name : i \in 1..Len(children)}
        present == {i \in 1..Len(children) : children[i].name \in Keys(items)}
        absent == {i \in 1..Len(children) :
                      /\ children[i].name \notin Keys(items)
                      /\ children[i].missing = "required"}
        rest == Keys(items) \ names
        errors == UNION {PrincipalErrors(children[i].name,
                                         items[ItemOf(items, children[i].name)][2])
                            : i \in present}
                  \cup {<<children[i].name, "Required">> : i \in absent}
        kept == {children[i].name : i \in present} \cup
                (IF schema_type(known_perms) = "preserve" THEN rest ELSE {})
    IN IF schema_type(known_perms) = "raise" /\ rest # {}
       THEN Invalid({<<"Unrecognized keys in mapping", rest>>})
       ELSE IF errors # {} THEN Invalid(errors)
       ELSE Ok([k \in kept |-> items[ItemOf(items, k)][2]])

\* deserialize, lines 124-142.
PermissionsSchema_deserialize(known_perms, cstruct) ==
    IF cstruct.t # "dict" THEN MappingOfPrincipals(known_perms, cstruct)
    ELSE IF known_perms # <<>>
    THEN IF OneOfErrors(known_perms, cstruct.items) # {}
         THEN Invalid(OneOfErrors(known_perms, cstruct.items))
         ELSE MappingOfPrincipals(known_perms, cstruct)
    ELSE LET items == cstruct.items
             errors == UNION {PrincipalErrors(items[i][1], items[i][2])
                                 : i \in 1..Len(items)}
         IN IF errors # {} THEN Invalid(errors)
            ELSE Ok([k \in Keys(items) |-> items[ItemOf(items, k)][2]])

\* ---- permission mappings of the model -----------------------------------
\* The most keys a permissions mapping holds.
MaxPermKeys == 2

Perms == {"read", "write", "delete"}

\* Lists of principals: empty, with a repeated principal, with an empty one.
PrincipalLists ==
    {<<>>, <<"alice">>, <<"alice", "bob">>, <<"alice", "alice">>, <<"">>,
     <<"bob", "">>}

KeyLists ==
    {ks \in UNION {[1..n -> Perms] : n \in 0..MaxPermKeys} :
        \A i, j \in 1..Len(ks) : i # j => ks[i] # ks[j]}

PermCstructs ==
    {Null} \cup
    UNION {{Dict([i \in 1..Len(ks) |-> <<ks[i], ps[i]>>]) :
               ps \in [1..Len(ks) -> PrincipalLists]} : ks \in KeyLists}

KnownPerms == {<<>>, <<"read">>, <<"write">>, <<"read", "write">>, <<"write", "read">>}

InitPerm ==
    /\ pc = "call"
    /\ arg \in {[known_perms |-> kp, cstruct |-> c] : kp \in KnownPerms, c \in PermCstructs}
    /\ ret = None
    /\ schema = None
    /\ last = Idle
    /\ binds = 0

CallPermissionsDeserialize ==
    /\ pc = "call"
    /\ pc' = "done"
    /\ ret' = PermissionsSchema_deserialize(arg.known_perms, arg.cstruct)
    /\ UNCHANGED <<arg, schema, last, binds>>

NextPerm == CallPermissionsDeserialize

SpecPerm == InitPerm /\ [][NextPerm]_vars

\* A schema built with known permissions, validating a mapping.
KnownAndMapping == pc = "done" /\ arg.known_perms # <<>> /\ arg.cstruct # Null

Known == {arg.known_perms[i] : i \in 1..Len(arg.known_perms)}

InputKeys == Keys(arg.cstruct.items)

NonMemberKeys == {i \in 1..Len(arg.cstruct.items) : arg.cstruct.items[i][1] \notin Known}

NoEmptyPrincipal ==
    \A i \in 1..Len(arg.cstruct.items) :
        \A j \in 1..Len(arg.cstruct.items[i][2]) : arg.cstruct.items[i][2][j] # ""

PermOutcome ==
    /\ ret.status = "ok" <=> InputKeys \subseteq Known
    /\ ret.status # "ok" =>
          \E i \in NonMemberKeys :
              /\ \A j \in NonMemberKeys : i <= j
              /\ ret = Invalid({<<arg.cstruct.items[i][1], "is not one of",
                                  arg.known_perms>>})
    /\ ret.status = "ok" =>
          /\ DOMAIN ret.value = InputKeys
          /\ \A i \in 1..Len(arg.cstruct.items) :
                ret.value[arg.cstruct.items[i][1]] = arg.cstruct.items[i][2]

====
